---- MODULE Spec2Model ----
(***************************************************************************)
(* Model of the ingestion engine of frieeze/tezos-delegation               *)
(* (internal/sync/sync.go): the Live synchronizer (Sync/Stop/sync and its  *)
(* background goroutine), the History synchronizer (Sync/Stop/batch), the  *)
(* upstream page source they fetch from and the store they insert into.    *)
(*                                                                         *)
(* Time is counted in units of 1/SubSec second.  A time.Time is an instant *)
(* (at) and the offset of its location from UTC (off), both in units.  A   *)
(* timestamp string is modelled by its number of whole seconds; 0 is the   *)
(* empty string and -1 a string that time.Parse rejects.                   *)
(***************************************************************************)
EXTENDS Integers, Sequences, FiniteSets, TLC

\* ---------------------------------------------------------------- bounds
MaxStarts == 1      \* calls of Live.Sync that get past the interval test
MaxAdvance == 3     \* steps of the clock
MaxRecords == 3     \* records the upstream source can hold
PageSize == 2       \* stands for the page size of History.batch (10000)

\* ------------------------------------------------------------- constants
SubSec == 2         \* clock units per second
Interval == 5       \* the non-zero interval given to NewLive, in units
firstDelegation == 1 \* the second of the first delegation of the chain

VARIABLES
    now,            \* time.Now(): the instant, in the location time.Local
    upstream,       \* the records the upstream API holds
    store,          \* the rows of the delegations table
    parentDone,     \* the context given to Live.Sync is cancelled
    l,              \* the fields of the Live struct
    ctxDone,        \* the contexts made by context.WithCancel that are cancelled
    tkRunning,      \* the tickers that have not been stopped
    tkPending,      \* the tickers whose channel holds a tick
    chBuf,          \* the stopped channels that hold a value
    chClosed,       \* the stopped channels that are closed
    procs,          \* the caller (0) and the background goroutines (1..)
    nStarts,        \* contexts/tickers created so far
    nTasks,         \* goroutines spawned so far
    syncRet,        \* the value the last call of Live.Sync returned
    refused,        \* a call of Live.Sync has returned ErrNoInterval
    stop,           \* the last Stop that returned: how, and the goroutines
                    \* that had been spawned when it was called
    failed,         \* a poll step of a goroutine has returned an error
    panicked,       \* the process died of a panic
    h,              \* the fields of the History struct
    hrun,           \* the frame of History.Sync
    hCtxDone,       \* the context given to History.Sync is cancelled
    hstop,          \* the thread that calls History.Stop, and where Sync
                    \* was when it called
    hFetches,       \* the requests History.batch has issued
    hInserts,       \* the pages History.batch has passed to Store.Insert
    sq,             \* the last call of a method of the sqlite store
    get,            \* the frame of a call of getDelegations
    dec             \* the frame of a call of decodeDelegations

liveVars == <<parentDone, l, ctxDone, tkRunning, tkPending, chBuf, chClosed,
              procs, nStarts, nTasks, syncRet, refused, stop, failed, panicked>>
histVars == <<h, hrun, hCtxDone, hstop, hFetches, hInserts>>
ioVars == <<sq, get, dec>>
vars == <<now, upstream, store, liveVars, histVars, ioVars>>

\* ------------------------------------------------------------ data model
\* The first state is one second after the last upstream record.
StartTime == (MaxRecords + 1) * SubSec

\* The upstream holds record i at second i.
RecordAt(i) == [id |-> i, ts |-> i]

UpTo(n) == {RecordAt(i) : i \in 1..n}

\* The offsets of time.Local the model tries, in seconds: UTC and an
\* eastern zone.
Zones == {0, 1}

\* The zero time.Time; its location is UTC.
ZeroTime == [at |-> 0, off |-> 0]

\* time.Time.Add: the location is kept.
Add(t, d) == [t EXCEPT !.at = @ + d]

\* time.Time.Format(dateFormat): the clock reading in the location of t, at
\* second precision; the Z of the layout is literal text, not a zone.
Format(t) == (t.at + t.off) \div SubSec

\* time.Parse(dateFormat, s): -1 stands for a string that does not parse.
\* A parser that takes every string for a date.
ParseOkAlways(s) == TRUE

ParseOk(s) == s >= 0
Parse(s) == [at |-> s * SubSec, off |-> 0]

\* Errors are chains of wrapped errors, outermost first; nil is <<>>.
Nil == <<>>
ErrNoInterval == <<"no interval">>
ErrInvalidStatusCode == <<"invalid status code">>
ErrStatus == <<"invalid status code : 400">> \o ErrInvalidStatusCode
ErrCanceled == <<"context canceled">>
ErrParse == <<"parsing time">>
ErrStore == <<"store">>
NotCalled == <<"not called">>      \* syncRet before the first call returns
Wrap(msg, err) == <<msg>> \o err
Is(err, target) == \E i \in 1..Len(err) : SubSeq(err, i, Len(err)) = target

\* Sorting a set of records by descending timestamp (ids break ties).
RECURSIVE SortDesc(_)
SortDesc(S) ==
    IF S = {} THEN <<>>
    ELSE LET m == CHOOSE r \in S : \A q \in S :
                        r.ts > q.ts \/ (r.ts = q.ts /\ r.id >= q.id)
         IN <<m>> \o SortDesc(S \ {m})

Take(s, n) == IF Len(s) <= n THEN s ELSE SubSeq(s, 1, n)

Range(s) == {s[i] : i \in 1..Len(s)}

\* The upstream API: timestamp.ge, timestamp.lt and limit are applied when
\* given (0 = omitted); the page is ordered by descending timestamp.
Page(ge, lt, limit) ==
    LET sel == {r \in upstream : (ge = 0 \/ r.ts >= ge) /\ (lt = 0 \/ r.ts < lt)}
        all == SortDesc(sel)
    IN IF limit > 0 THEN Take(all, limit) ELSE all

\* The errors of the sqlite driver and of database/sql.
ErrUnique == <<"UNIQUE constraint failed: delegations.id">>
ErrNoRows == <<"sql: no rows in result set">>

\* stmt.ExecContext for one row of the table made by createTable: a row
\* whose id exists violates the UNIQUE constraint and is not inserted.
ExecContext(rows, d) ==
    IF \E r \in rows : r.id = d.id
    THEN [rows |-> rows, err |-> ErrUnique]
    ELSE [rows |-> rows \cup {d}, err |-> Nil]

\* A test that takes no error for a UNIQUE violation.
isUniqueViolationNever(err) == FALSE

isUniqueViolation(err) == err = ErrUnique

\* The loop of sqlite.Insert: the rows are inserted in order, the error of
\* a UNIQUE violation is passed over, any other error ends the loop.
RECURSIVE InsertLoop(_, _)
InsertLoop(rows, ds) ==
    IF ds = <<>> THEN [rows |-> rows, err |-> Nil]
    ELSE LET e == ExecContext(rows, Head(ds))
         IN IF e.err # Nil /\ ~isUniqueViolation(e.err)
            THEN [rows |-> rows, err |-> e.err]
            ELSE InsertLoop(e.rows, Tail(ds))

\* sqlite.Insert as one transaction: tx.Commit() after the loop, the
\* deferred tx.Rollback() when the loop has returned an error.
InsertTx(rows, ds) ==
    IF InsertLoop(rows, ds).err # Nil
    THEN [rows |-> rows, err |-> InsertLoop(rows, ds).err]
    ELSE InsertLoop(rows, ds)

\* A table without the UNIQUE constraint on id.
InsertAll(rows, ds) == rows \cup Range(ds)

\* sqlite.Insert, when it returns nil: the rows of the committed transaction.
Insert(rows, ds) == InsertTx(rows, ds).rows

\* ------------------------------------------------------- Live synchronizer
\* 0 is the caller, the others are goroutines: one for each Sync that can
\* get past the interval test, a Sync on a stopped instance included.
Procs == 0..(MaxStarts + 1)
Tasks == 1..(MaxStarts + 1)

\* A context made by WithCancel is done when it or its parent is cancelled.
Done(c) == c \in ctxDone \/ parentDone

\* The frame of a thread: where it is, and the context, request, page,
\* ticker and channel it holds.
idleProc == [pc |-> "idle", ctx |-> 0, ge |-> 0, lt |-> 0, last |-> ZeroTime,
             at |-> 0, page |-> <<>>, tk |-> 0, ch |-> 0]
noProc == [idleProc EXCEPT !.pc = "none"]

\* NewLive: nothing but api, interval and store is set.
NewLive(interval) ==
    [interval |-> interval, ctx |-> 0, ticker |-> 0, last |-> ZeroTime, to |-> 0,
     stopped |-> 0]

\* getOpts.TsGe of Live.sync: the last sync time less 20% of the interval.
LiveTsGe(last, interval) == Format(Add(last, -(interval \div 5)))

\* The head of Live.sync, up to the moment the request is on the wire.
BeginPoll(p, lv) ==
    procs' = [procs EXCEPT ![p] = [@ EXCEPT !.pc = "fetch", !.ctx = lv.ctx,
                                    !.ge = LiveTsGe(lv.last, lv.interval),
                                    !.lt = lv.to,
                                    !.last = lv.last, !.at = now.at]]

\* A Sync that spawns the goroutine before it looks at the error.
ReturnFromSyncSpawnsAnyway(err) ==
    /\ syncRet' = err
    /\ nTasks' = nTasks + 1
    /\ procs' = [procs EXCEPT ![0] = idleProc,
                              ![nTasks + 1] = [idleProc EXCEPT !.pc = "spawned"]]
    /\ UNCHANGED failed

\* Live.Sync returns err to its caller; on nil the goroutine is spawned first.
ReturnFromSync(err) ==
    /\ syncRet' = err
    /\ IF err = Nil
       THEN /\ nTasks' = nTasks + 1
            /\ procs' = [procs EXCEPT ![0] = idleProc,
                                      ![nTasks + 1] = [idleProc EXCEPT !.pc = "spawned"]]
       ELSE /\ procs' = [procs EXCEPT ![0] = idleProc]
            /\ UNCHANGED nTasks
    /\ UNCHANGED failed

\* A loop that returns on the error of a poll.
ReturnToLoopStopsOnError(p, err) ==
    /\ procs' = [procs EXCEPT ![p] = [idleProc EXCEPT
                     !.pc = IF err = Nil THEN "loop" ELSE "exit"]]
    /\ failed' = (failed \/ err # Nil)
    /\ UNCHANGED <<nTasks, syncRet>>

\* The background loop logs the error of a poll and goes round again.
ReturnToLoop(p, err) ==
    /\ procs' = [procs EXCEPT ![p] = [idleProc EXCEPT !.pc = "loop"]]
    /\ failed' = (failed \/ err # Nil)
    /\ UNCHANGED <<nTasks, syncRet>>

EndPoll(p, err) == IF p = 0 THEN ReturnFromSync(err) ELSE ReturnToLoop(p, err)

\* An interval test that lets zero through.
NoIntervalNegativeOnly(lv) == lv.interval < 0

\* if l.interval == 0
NoInterval(lv) == lv.interval = 0

\* A Sync that starts the goroutine before its first poll.
LiveSyncUpToSpawnsFirst(from, max) ==
    /\ ~panicked /\ procs[0].pc = "idle"
    /\ IF NoInterval(l)
       THEN /\ syncRet' = ErrNoInterval
            /\ refused' = TRUE
            /\ UNCHANGED <<l, tkRunning, nStarts, nTasks, procs>>
       ELSE /\ nStarts < max
            /\ nStarts' = nStarts + 1
            /\ UNCHANGED refused
            /\ tkRunning' = tkRunning \cup {nStarts + 1}
            /\ IF from # 0 /\ ~ParseOk(from)
               THEN /\ l' = [l EXCEPT !.ctx = nStarts + 1, !.ticker = nStarts + 1,
                                      !.last = now]
                    /\ syncRet' = ErrParse
                    /\ UNCHANGED <<nTasks, procs>>
               ELSE /\ l' = [l EXCEPT !.ctx = nStarts + 1, !.ticker = nStarts + 1,
                                      !.last = IF from # 0 THEN Parse(from) ELSE now]
                    /\ nTasks' = nTasks + 1
                    /\ procs' = [procs EXCEPT
                          ![0] = [@ EXCEPT !.pc = "fetch", !.ctx = l'.ctx,
                                           !.ge = LiveTsGe(l'.last, l'.interval),
                                           !.lt = l'.to, !.last = l'.last,
                                           !.at = now.at],
                          ![nTasks + 1] = [idleProc EXCEPT !.pc = "spawned"]]
                    /\ UNCHANGED syncRet
    /\ UNCHANGED <<now, upstream, store, parentDone, ctxDone, tkPending, chBuf,
                   chClosed, stop, failed, panicked, histVars, ioVars>>

\* Live.Sync, from its entry to the request of the first poll; max caps
\* the number of calls that get past the interval test.
LiveSyncUpTo(from, max) ==
    /\ ~panicked /\ procs[0].pc = "idle"
    /\ IF NoInterval(l)
       THEN /\ syncRet' = ErrNoInterval
            /\ refused' = TRUE
            /\ UNCHANGED <<l, tkRunning, nStarts, procs>>
       ELSE /\ nStarts < max
            /\ nStarts' = nStarts + 1
            /\ UNCHANGED refused
            /\ tkRunning' = tkRunning \cup {nStarts + 1}
            /\ IF from # 0 /\ ~ParseOk(from)
               THEN /\ l' = [l EXCEPT !.ctx = nStarts + 1, !.ticker = nStarts + 1,
                                      !.last = now]
                    /\ syncRet' = ErrParse
                    /\ UNCHANGED procs
               ELSE /\ l' = [l EXCEPT !.ctx = nStarts + 1, !.ticker = nStarts + 1,
                                      !.last = IF from # 0 THEN Parse(from) ELSE now]
                    /\ BeginPoll(0, l')
                    /\ UNCHANGED syncRet
    /\ UNCHANGED <<now, upstream, store, parentDone, ctxDone, tkPending, chBuf,
                   chClosed, nTasks, stop, failed, panicked, histVars, ioVars>>

LiveSync(from) == LiveSyncUpTo(from, MaxStarts)

\* A poll step that leaves l.last as it found it.
AfterFetchKeepsLast(lv) == lv

\* l.last = time.Now(), once the fetch has returned without error.
AfterFetch(lv) == [lv EXCEPT !.last = now]

\* A poll step that forwards every page, empty or not.
EmptyPageNever(pg) == FALSE

\* if len(delegations) == 0
EmptyPage(pg) == Len(pg) = 0

\* getDelegations returns inside Live.sync.
FetchErrors == {ErrStatus, ErrCanceled}
FetchOutcomes(done) == IF done THEN {ErrCanceled} ELSE {Nil, ErrStatus}

\* A poll step that takes the time before it looks at the error.
LiveFetchReturnStampsFirst(p, err) ==
    /\ ~panicked /\ procs[p].pc = "fetch"
    /\ err \in FetchOutcomes(Done(procs[p].ctx))
    /\ l' = AfterFetch(l)
    /\ IF err # Nil
       THEN EndPoll(p, err)
       ELSE IF EmptyPage(Page(procs[p].ge, procs[p].lt, 0))
            THEN EndPoll(p, Nil)
            ELSE /\ procs' = [procs EXCEPT ![p].pc = "insert",
                                           ![p].page = Page(procs[p].ge, procs[p].lt, 0)]
                 /\ UNCHANGED <<nTasks, syncRet, failed>>
    /\ UNCHANGED <<now, upstream, store, parentDone, ctxDone, tkRunning, tkPending,
                   chBuf, chClosed, nStarts, refused, stop, panicked, histVars, ioVars>>

LiveFetchReturn(p, err) ==
    /\ ~panicked /\ procs[p].pc = "fetch"
    /\ err \in FetchOutcomes(Done(procs[p].ctx))
    /\ IF err # Nil
       THEN /\ EndPoll(p, err)
            /\ UNCHANGED l
       ELSE /\ l' = AfterFetch(l)
            /\ IF EmptyPage(Page(procs[p].ge, procs[p].lt, 0))
               THEN EndPoll(p, Nil)
               ELSE /\ procs' = [procs EXCEPT ![p].pc = "insert",
                                              ![p].page = Page(procs[p].ge, procs[p].lt, 0)]
                    /\ UNCHANGED <<nTasks, syncRet, failed>>
    /\ UNCHANGED <<now, upstream, store, parentDone, ctxDone, tkRunning, tkPending,
                   chBuf, chClosed, nStarts, refused, stop, panicked, histVars, ioVars>>

\* Store.Insert returns inside Live.sync.
InsertErrors == {ErrStore, ErrCanceled}
InsertOutcomes(done) == IF done THEN {ErrCanceled} ELSE {Nil, ErrStore}

\* A poll step that drops the error of Store.Insert.
LiveInsertReturnSwallows(p, err) ==
    /\ ~panicked /\ procs[p].pc = "insert"
    /\ err \in InsertOutcomes(Done(procs[p].ctx))
    /\ store' = IF err = Nil THEN Insert(store, procs[p].page) ELSE store
    /\ EndPoll(p, Nil)
    /\ UNCHANGED <<now, upstream, parentDone, l, ctxDone, tkRunning, tkPending,
                   chBuf, chClosed, nStarts, refused, stop, panicked, histVars, ioVars>>

LiveInsertReturn(p, err) ==
    /\ ~panicked /\ procs[p].pc = "insert"
    /\ err \in InsertOutcomes(Done(procs[p].ctx))
    /\ store' = IF err = Nil THEN Insert(store, procs[p].page) ELSE store
    /\ EndPoll(p, err)
    /\ UNCHANGED <<now, upstream, parentDone, l, ctxDone, tkRunning, tkPending,
                   chBuf, chClosed, nStarts, refused, stop, panicked, histVars, ioVars>>

\* The goroutine starts: it makes the stopped channel.
TaskInit(p) ==
    /\ ~panicked /\ p \in Tasks /\ procs[p].pc = "spawned"
    /\ l' = [l EXCEPT !.stopped = p]
    /\ procs' = [procs EXCEPT ![p].pc = "loop"]
    /\ UNCHANGED <<now, upstream, store, parentDone, ctxDone, tkRunning, tkPending,
                   chBuf, chClosed, nStarts, nTasks, syncRet, refused, stop,
                   failed, panicked, histVars, ioVars>>

\* The goroutine enters the select: l.ticker.C is evaluated now.
TaskSelect(p) ==
    /\ ~panicked /\ p \in Tasks /\ procs[p].pc = "loop"
    /\ procs' = [procs EXCEPT ![p].pc = "select", ![p].tk = l.ticker]
    /\ UNCHANGED <<now, upstream, store, parentDone, l, ctxDone, tkRunning,
                   tkPending, chBuf, chClosed, nStarts, nTasks, syncRet, refused,
                   stop, failed, panicked, histVars, ioVars>>

\* case <-l.ticker.C: the tick is taken and the poll step starts.
TaskTick(p) ==
    /\ ~panicked /\ p \in Tasks /\ procs[p].pc = "select"
    /\ procs[p].tk \in tkPending
    /\ tkPending' = tkPending \ {procs[p].tk}
    /\ BeginPoll(p, l)
    /\ UNCHANGED <<now, upstream, store, parentDone, l, ctxDone, tkRunning, chBuf,
                   chClosed, nStarts, nTasks, syncRet, refused, stop, failed,
                   panicked, histVars, ioVars>>

\* case <-ctx.Done(): ctx is the context that was given to Sync.
TaskCtxDone(p) ==
    /\ ~panicked /\ p \in Tasks /\ procs[p].pc = "select"
    /\ parentDone
    /\ procs' = [procs EXCEPT ![p].pc = "exit"]
    /\ UNCHANGED <<now, upstream, store, parentDone, l, ctxDone, tkRunning,
                   tkPending, chBuf, chClosed, nStarts, nTasks, syncRet, refused,
                   stop, failed, panicked, histVars, ioVars>>

\* A stopped channel without a buffer: the send waits for a receiver.
TaskExitUnbuffered(p) ==
    /\ ~panicked /\ p \in Tasks /\ procs[p].pc = "exit"
    /\ procs[0].pc = "stop_wait" /\ procs[0].ch = l.stopped
    /\ \/ /\ l.stopped \in chClosed
          /\ panicked' = TRUE
          /\ UNCHANGED <<chBuf, procs>>
       \/ /\ l.stopped \notin chClosed /\ l.stopped \notin chBuf
          /\ chBuf' = chBuf \cup {l.stopped}
          /\ procs' = [procs EXCEPT ![p].pc = "done"]
          /\ UNCHANGED panicked
    /\ UNCHANGED <<now, upstream, store, parentDone, l, ctxDone, tkRunning,
                   tkPending, chClosed, nStarts, nTasks, syncRet, refused, stop,
                   failed, histVars, ioVars>>

\* The deferred l.stopped <- true: blocks on a full channel, panics on a
\* closed one.
TaskExit(p) ==
    /\ ~panicked /\ p \in Tasks /\ procs[p].pc = "exit"
    /\ \/ /\ l.stopped \in chClosed
          /\ panicked' = TRUE
          /\ UNCHANGED <<chBuf, procs>>
       \/ /\ l.stopped \notin chClosed /\ l.stopped \notin chBuf
          /\ chBuf' = chBuf \cup {l.stopped}
          /\ procs' = [procs EXCEPT ![p].pc = "done"]
          /\ UNCHANGED panicked
    /\ UNCHANGED <<now, upstream, store, parentDone, l, ctxDone, tkRunning,
                   tkPending, chClosed, nStarts, nTasks, syncRet, refused, stop,
                   failed, histVars, ioVars>>

\* A Stop without the nil test of l.ctx.
LiveStopNoNilTest ==
    /\ ~panicked /\ procs[0].pc = "idle"
    /\ procs' = [procs EXCEPT ![0] = [@ EXCEPT !.pc = "stop_cancel",
                          !.ctx = l.ctx, !.tk = l.ticker, !.ch = l.stopped]]
    /\ UNCHANGED <<now, upstream, store, parentDone, l, ctxDone, tkRunning,
                   tkPending, chBuf, chClosed, nStarts, nTasks, syncRet, refused, failed,
                   stop, panicked, histVars, ioVars>>

\* Live.Stop is called: the receiver is a copy of the struct made now.
LiveStop ==
    /\ ~panicked /\ procs[0].pc = "idle"
    /\ IF l.ctx = 0
       THEN /\ stop' = [how |-> "noop", tasks |-> nTasks]
            /\ UNCHANGED procs
       ELSE /\ procs' = [procs EXCEPT ![0] = [@ EXCEPT !.pc = "stop_cancel",
                             !.ctx = l.ctx, !.tk = l.ticker, !.ch = l.stopped]]
            /\ UNCHANGED stop
    /\ UNCHANGED <<now, upstream, store, parentDone, l, ctxDone, tkRunning,
                   tkPending, chBuf, chClosed, nStarts, nTasks, syncRet, refused, failed,
                   panicked, histVars, ioVars>>

\* l.cancel(); l.ticker.Stop(); then the nil test of the copied channel.
\* A tick that is already in the ticker's channel stays there or not,
\* depending on the toolchain (timers are unbuffered since go 1.23).
LiveStopCancel(drain) ==
    /\ ~panicked /\ procs[0].pc = "stop_cancel"
    /\ ctxDone' = ctxDone \cup {procs[0].ctx}
    /\ tkRunning' = tkRunning \ {procs[0].tk}
    /\ tkPending' = IF drain THEN tkPending \ {procs[0].tk} ELSE tkPending
    /\ IF procs[0].ch = 0
       THEN /\ stop' = [how |-> "nowait", tasks |-> nTasks]
            /\ procs' = [procs EXCEPT ![0] = idleProc]
       ELSE /\ procs' = [procs EXCEPT ![0].pc = "stop_wait"]
            /\ UNCHANGED stop
    /\ UNCHANGED <<now, upstream, store, parentDone, l, chBuf, chClosed, nStarts,
                   nTasks, syncRet, refused, failed, panicked, histVars, ioVars>>

\* <-l.stopped; close(l.stopped)
LiveStopWait ==
    /\ ~panicked /\ procs[0].pc = "stop_wait"
    /\ procs[0].ch \in chBuf \cup chClosed
    /\ chBuf' = chBuf \ {procs[0].ch}
    /\ IF procs[0].ch \in chClosed
       THEN /\ panicked' = TRUE
            /\ UNCHANGED <<chClosed, stop, procs>>
       ELSE /\ chClosed' = chClosed \cup {procs[0].ch}
            /\ stop' = [how |-> "waited", tasks |-> nTasks]
            /\ procs' = [procs EXCEPT ![0] = idleProc]
            /\ UNCHANGED panicked
    /\ UNCHANGED <<now, upstream, store, parentDone, l, ctxDone, tkRunning,
                   tkPending, nStarts, nTasks, syncRet, refused, failed, histVars, ioVars>>

\* s.interval = time.Minute, as the package's test does between two Syncs.
SetInterval ==
    /\ ~panicked /\ procs[0].pc = "idle"
    /\ l.interval = 0
    /\ l' = [l EXCEPT !.interval = Interval]
    /\ UNCHANGED <<now, upstream, store, parentDone, ctxDone, tkRunning, tkPending,
                   chBuf, chClosed, procs, nStarts, nTasks, syncRet, refused,
                   stop, failed, panicked, histVars, ioVars>>

\* A running ticker puts a tick in its channel (dropped when one is there).
TickerFire(t) ==
    /\ ~panicked /\ t \in tkRunning /\ t \notin tkPending
    /\ tkPending' = tkPending \cup {t}
    /\ UNCHANGED <<now, upstream, store, parentDone, l, ctxDone, tkRunning, chBuf,
                   chClosed, procs, nStarts, nTasks, syncRet, refused, stop,
                   failed, panicked, histVars, ioVars>>

\* The owner of the context given to Live.Sync cancels it.
CancelParent ==
    /\ ~panicked /\ ~parentDone
    /\ parentDone' = TRUE
    /\ UNCHANGED <<now, upstream, store, l, ctxDone, tkRunning, tkPending, chBuf,
                   chClosed, procs, nStarts, nTasks, syncRet, refused, stop,
                   failed, panicked, histVars, ioVars>>

\* Time passes.
Advance ==
    /\ now.at < StartTime + MaxAdvance
    /\ now' = Add(now, 1)
    /\ UNCHANGED <<upstream, store, liveVars, histVars, ioVars>>

\* ----------------------------------------------------- History synchronizer
\* NewHistory: ctx, cancel and stopped are left at their zero values.  buf
\* and closed are the state of the channel that stopped refers to.
NewHistory == [ctx |-> 0, stopped |-> 0, buf |-> FALSE, closed |-> FALSE]

\* The frame of History.Sync: argFrom and argTo are the arguments of the
\* call, from and to its (reassigned) parameters, from0 the lower bound of
\* its first batch, prev the one of the batch before, last the cursor the
\* last batch returned, lookup whether Store.LastDelegation was called,
\* cause the error a failing call returned, ret the returned error.
idleRun == [pc |-> "idle", argFrom |-> 0, argTo |-> 0, from |-> 0, to |-> 0,
            from0 |-> 0, prev |-> 0, last |-> 0, lookup |-> FALSE,
            page |-> <<>>, cause |-> Nil, ret |-> Nil]

\* The zero value of tds.Delegation.
ZeroDelegation == [id |-> 0, ts |-> 0]

\* sqlite.LastDelegation: ORDER BY timestamp DESC LIMIT 1, scanned into a
\* Delegation; Scan returns sql.ErrNoRows when the query has no row.
sqliteLastDelegation(rows) ==
    IF rows = {} THEN [d |-> ZeroDelegation, err |-> ErrNoRows]
    ELSE [d |-> CHOOSE r \in rows : \A q \in rows : r.ts >= q.ts, err |-> Nil]

\* A lookup that orders the rows the other way round.
LastDelegationOldest(rows) ==
    IF rows = {} THEN 0
    ELSE (CHOOSE r \in rows : \A q \in rows : r.ts <= q.ts).ts

\* storeLast as History.Sync reads it from the Store it was given: the
\* timestamp of the row with the greatest timestamp, 0 for a nil pointer.
LastDelegation(rows) ==
    IF rows = {} THEN 0
    ELSE sqliteLastDelegation(rows).d.ts

\* A batch that takes a full page for the last one.
BatchLastOffByOne(page) ==
    IF Len(page) <= PageSize THEN 0 ELSE page[Len(page)].ts

\* The result of History.batch after a successful fetch and insert.
BatchLast(page) ==
    IF Len(page) < PageSize THEN 0 ELSE page[Len(page)].ts

\* A return that formats the cause with %v: the chain is cut.
HistFailUnwrapped(msg, err) ==
    /\ hrun' = [hrun EXCEPT !.pc = "done", !.cause = err, !.ret = <<msg>>]
    /\ h' = [h EXCEPT !.buf = TRUE]

\* return fmt.Errorf("...: %w", err), and the deferred h.stopped <- true.
HistFail(msg, err) ==
    /\ hrun' = [hrun EXCEPT !.pc = "done", !.cause = err, !.ret = Wrap(msg, err)]
    /\ h' = [h EXCEPT !.buf = TRUE]

\* A Sync that goes on to its loop when the lookup has failed.
HistLookupFailGoesOn(to, err) ==
    /\ hrun' = [hrun EXCEPT !.pc = "check", !.argTo = to, !.lookup = TRUE,
                            !.cause = err, !.from = firstDelegation,
                            !.from0 = firstDelegation,
                            !.to = IF to # 0 THEN to ELSE Format(now)]
    /\ UNCHANGED h

\* return fmt.Errorf("failed to get last delegation: %w", err): the stopped
\* channel is not made yet and nothing is deferred.
HistLookupFail(to, err) ==
    /\ hrun' = [hrun EXCEPT !.pc = "done", !.argTo = to, !.lookup = TRUE,
                            !.cause = err,
                            !.ret = Wrap("failed to get last delegation", err)]
    /\ UNCHANGED h

\* History.Sync from its entry to the top of the loop.
HistSync(from, to, lookupErr) ==
    /\ hrun.pc = "idle"
    /\ IF from = 0 /\ lookupErr # Nil
       THEN HistLookupFail(to, lookupErr)
       ELSE LET f == IF from # 0 THEN from
                     ELSE IF LastDelegation(store) # 0 THEN LastDelegation(store)
                     ELSE firstDelegation
                t == IF to # 0 THEN to ELSE Format(now)
            IN /\ hrun' = [hrun EXCEPT !.pc = "check", !.argFrom = from,
                                       !.argTo = to, !.lookup = (from = 0),
                                       !.from = f, !.to = t, !.from0 = f]
               /\ h' = [h EXCEPT !.stopped = 1, !.buf = FALSE, !.closed = FALSE]
    /\ UNCHANGED <<now, upstream, store, liveVars, ioVars, hCtxDone, hstop, hFetches,
                   hInserts>>

\* A loop that never looks at its context.
CancelledNeverSeen(done) == FALSE

\* select { case <-ctx.Done(): ... default: }
Cancelled(done) == done

\* A batch that takes the time anew when no to was given.
BatchOptsToNow(run) ==
    [ge |-> run.from,
     lt |-> IF run.argTo # 0 THEN run.argTo ELSE Format(now),
     limit |-> PageSize]

\* The getOpts of History.batch: from and to as Sync holds them.
BatchOpts(run) == [ge |-> run.from, lt |-> run.to, limit |-> PageSize]

\* The top of the loop: the cancellation test, then the request of h.batch.
HistCheck ==
    /\ hrun.pc = "check"
    /\ IF Cancelled(hCtxDone)
       THEN /\ hrun' = [hrun EXCEPT !.pc = "done", !.ret = Nil]
            /\ h' = [h EXCEPT !.buf = TRUE]
            /\ UNCHANGED hFetches
       ELSE /\ hrun' = [hrun EXCEPT !.pc = "fetch"]
            /\ hFetches' = hFetches \cup {BatchOpts(hrun)}
            /\ UNCHANGED h
    /\ UNCHANGED <<now, upstream, store, liveVars, ioVars, hCtxDone, hstop, hInserts>>

\* A batch that, like Live.sync, does not call Store.Insert for an empty page.
HistFetchReturnSkipsEmpty(err) ==
    /\ hrun.pc = "fetch"
    /\ err \in FetchOutcomes(hCtxDone)
    /\ IF err # Nil
       THEN /\ HistFail("failed to get delegations", err)
            /\ UNCHANGED hInserts
       ELSE IF Page(hrun.from, hrun.to, PageSize) = <<>>
       THEN /\ hrun' = [hrun EXCEPT !.pc = "done", !.ret = Nil]
            /\ h' = [h EXCEPT !.buf = TRUE]
            /\ UNCHANGED hInserts
       ELSE /\ hrun' = [hrun EXCEPT !.pc = "insert",
                                    !.page = Page(hrun.from, hrun.to, PageSize)]
            /\ hInserts' = hInserts \cup {Page(hrun.from, hrun.to, PageSize)}
            /\ UNCHANGED h
    /\ UNCHANGED <<now, upstream, store, liveVars, ioVars, hCtxDone, hstop, hFetches>>

\* getDelegations returns inside h.batch; on success Store.Insert is called.
HistFetchReturn(err) ==
    /\ hrun.pc = "fetch"
    /\ err \in FetchOutcomes(hCtxDone)
    /\ IF err # Nil
       THEN /\ HistFail("failed to get delegations", err)
            /\ UNCHANGED hInserts
       ELSE /\ hrun' = [hrun EXCEPT !.pc = "insert",
                                    !.page = Page(hrun.from, hrun.to, PageSize)]
            /\ hInserts' = hInserts \cup {Page(hrun.from, hrun.to, PageSize)}
            /\ UNCHANGED h
    /\ UNCHANGED <<now, upstream, store, liveVars, ioVars, hCtxDone, hstop, hFetches>>

\* Store.Insert returns inside h.batch; then the tail of the loop body.
HistInsertReturn(err) ==
    /\ hrun.pc = "insert"
    /\ err \in InsertOutcomes(hCtxDone)
    /\ IF err # Nil
       THEN /\ HistFail("failed to insert delegations", err)
            /\ UNCHANGED store
       ELSE /\ store' = Insert(store, hrun.page)
            /\ IF BatchLast(hrun.page) = 0 \/ BatchLast(hrun.page) > hrun.to
               THEN /\ hrun' = [hrun EXCEPT !.pc = "done", !.ret = Nil, !.page = <<>>,
                                   !.last = BatchLast(hrun.page)]
                    /\ h' = [h EXCEPT !.buf = TRUE]
               ELSE /\ hrun' = [hrun EXCEPT !.pc = "check", !.page = <<>>,
                                   !.prev = hrun.from,
                                   !.last = BatchLast(hrun.page),
                                   !.from = BatchLast(hrun.page)]
                    /\ UNCHANGED h
    /\ UNCHANGED <<now, upstream, liveVars, ioVars, hCtxDone, hstop, hFetches, hInserts>>

\* History.Stop, called by another thread than the one that runs Sync.
HistStop ==
    /\ hstop.pc = "idle"
    /\ hstop' = [pc |-> "returned", during |-> hrun.pc]
    /\ IF h.ctx = 0 \/ h.stopped = 0
       THEN UNCHANGED h
       ELSE /\ h.buf
            /\ h' = [h EXCEPT !.buf = FALSE, !.closed = TRUE]
    /\ UNCHANGED <<now, upstream, store, liveVars, ioVars, hrun, hCtxDone, hFetches,
                   hInserts>>

\* The owner of the context given to History.Sync cancels it.
HistCancel ==
    /\ ~hCtxDone
    /\ hCtxDone' = TRUE
    /\ UNCHANGED <<now, upstream, store, liveVars, ioVars, h, hrun, hstop, hFetches,
                   hInserts>>

\* ----------------------------------------------------------- specifications
FromInputs == {0, 2, -1}        \* "", a date, a string that is not a date
HistFromInputs == {0, 3}        \* "", a date
HistToInputs == {0, MaxRecords} \* "", a date

InitLiveIdle ==
    /\ parentDone = FALSE
    /\ ctxDone = {} /\ tkRunning = {} /\ tkPending = {}
    /\ chBuf = {} /\ chClosed = {}
    /\ procs = [p \in Procs |-> IF p = 0 THEN idleProc ELSE noProc]
    /\ nStarts = 0 /\ nTasks = 0
    /\ syncRet = NotCalled /\ refused = FALSE
    /\ stop = [how |-> "none", tasks |-> 0]
    /\ failed = FALSE
    /\ panicked = FALSE

IdleStore == [op |-> "none", ds |-> <<>>, before |-> {}, again |-> FALSE,
              d |-> [id |-> 0, ts |-> 0], err |-> <<>>]

InitIoIdle ==
    /\ sq = IdleStore
    /\ get = [pc |-> "none"]
    /\ dec = [pc |-> "none"]

InitHistIdle ==
    /\ h = NewHistory
    /\ hrun = idleRun
    /\ hCtxDone = FALSE
    /\ hstop = [pc |-> "idle", during |-> "idle"]
    /\ hFetches = {} /\ hInserts = {}

InitLive ==
    /\ now \in {[at |-> StartTime, off |-> z * SubSec] : z \in Zones}
    /\ upstream \in {UpTo(0), UpTo(MaxRecords)}
    /\ store = {}
    /\ InitLiveIdle
    /\ l \in {NewLive(i) : i \in {0, Interval}}
    /\ InitHistIdle
    /\ InitIoIdle

NextLive ==
    \/ \E from \in FromInputs : LiveSync(from)
    \/ \E p \in Procs : \E err \in {Nil} \cup FetchErrors : LiveFetchReturn(p, err)
    \/ \E p \in Procs : \E err \in {Nil} \cup InsertErrors : LiveInsertReturn(p, err)
    \/ \E p \in Tasks : TaskInit(p)
    \/ \E p \in Tasks : TaskSelect(p)
    \/ \E p \in Tasks : TaskTick(p)
    \/ \E p \in Tasks : TaskCtxDone(p)
    \/ \E p \in Tasks : TaskExit(p)
    \/ LiveStop
    \/ \E drain \in BOOLEAN : LiveStopCancel(drain)
    \/ LiveStopWait
    \/ SetInterval
    \/ \E t \in 1..MaxStarts : TickerFire(t)
    \/ CancelParent

SpecLive == InitLive /\ [][NextLive]_vars

InitHist ==
    /\ now \in {[at |-> StartTime, off |-> z * SubSec] : z \in Zones}
    /\ upstream \in {UpTo(n) : n \in 0..MaxRecords}
    /\ store \in {UpTo(0), UpTo(2)}
    /\ InitLiveIdle
    /\ l = NewLive(Interval)
    /\ InitHistIdle
    /\ InitIoIdle

NextHist ==
    \/ \E from \in HistFromInputs : \E to \in HistToInputs :
          \E err \in {Nil, ErrStore} : HistSync(from, to, err)
    \/ HistCheck
    \/ \E err \in {Nil} \cup FetchErrors : HistFetchReturn(err)
    \/ \E err \in {Nil} \cup InsertErrors : HistInsertReturn(err)
    \/ HistStop
    \/ HistCancel
    \/ Advance

SpecHist == InitHist /\ [][NextHist]_vars

\* Both synchronizers at work on the store.Store that NewLive and
\* NewHistory were given; nobody stops or cancels them.  The store may hold
\* a row the upstream now reports with another timestamp.
StaleRow == [id |-> MaxRecords, ts |-> 1]

InitStore ==
    /\ now = [at |-> StartTime, off |-> 0]
    /\ upstream = UpTo(MaxRecords)
    /\ store \in {{}, {StaleRow}}
    /\ InitLiveIdle
    /\ l = NewLive(Interval)
    /\ InitHistIdle
    /\ InitIoIdle

NextStore ==
    \/ \E from \in FromInputs : LiveSync(from)
    \/ \E p \in Procs : \E err \in {Nil} \cup FetchErrors : LiveFetchReturn(p, err)
    \/ \E p \in Procs : \E err \in {Nil} \cup InsertErrors : LiveInsertReturn(p, err)
    \/ \E p \in Tasks : TaskInit(p)
    \/ \E p \in Tasks : TaskSelect(p)
    \/ \E p \in Tasks : TaskTick(p)
    \/ \E t \in 1..MaxStarts : TickerFire(t)
    \/ \E from \in HistFromInputs : \E to \in HistToInputs :
          \E err \in {Nil, ErrStore} : HistSync(from, to, err)
    \/ HistCheck
    \/ \E err \in {Nil} \cup FetchErrors : HistFetchReturn(err)
    \/ \E err \in {Nil} \cup InsertErrors : HistInsertReturn(err)

SpecStore == InitStore /\ [][NextStore]_vars

\* Fairness: a goroutine that can take a step takes it, a call that can
\* return returns.  Nobody is bound to call Sync or Stop, to cancel a
\* context, or to let time pass.
FairLive ==
    /\ \A p \in Procs : WF_vars(\E err \in {Nil} \cup FetchErrors : LiveFetchReturn(p, err))
    /\ \A p \in Procs : WF_vars(\E err \in {Nil} \cup InsertErrors : LiveInsertReturn(p, err))
    /\ \A p \in Tasks : WF_vars(TaskInit(p)) /\ WF_vars(TaskSelect(p))
                        /\ WF_vars(TaskTick(p)) /\ WF_vars(TaskCtxDone(p))
                        /\ WF_vars(TaskExit(p))
    /\ WF_vars(\E drain \in BOOLEAN : LiveStopCancel(drain))
    /\ WF_vars(LiveStopWait)

SpecLiveFair == SpecLive /\ FairLive

\* Sync is called and runs: its calls return and it takes its steps.
FairHist ==
    /\ WF_vars(\E from \in HistFromInputs : \E to \in HistToInputs : HistSync(from, to, Nil))
    /\ WF_vars(HistCheck)
    /\ WF_vars(HistFetchReturn(Nil))
    /\ WF_vars(HistInsertReturn(Nil))

SpecHistFair == SpecHist /\ FairHist

\* ------------------------------------------------------------------ claims
InPoll(p) == procs[p].pc \in {"fetch", "insert"}

\* C1: once Live.Stop has returned, every background goroutine that was
\* spawned before that call has exited, so none of them is in, or can still
\* begin, a poll step.
C1_StopReturnsAfterTaskExit ==
    \A p \in 1..stop.tasks : procs[p].pc = "done"

\* C2: the first call of Live.Stop that has something to stop eventually
\* returns, also when the context given to Sync is never cancelled.
C2_StopEventuallyReturns ==
    (procs[0].pc \in {"stop_cancel", "stop_wait"} /\ stop.how \in {"none", "noop"})
        ~> (procs[0].pc = "idle")

\* C3: a History.Stop that was called while Sync was running returns only
\* after the Sync loop has exited, and it cancels the run.
C3_HistStopWaitsForSync ==
    (hstop.pc = "returned" /\ hstop.during \notin {"idle", "done"})
        => (hrun.pc = "done" /\ hCtxDone)

\* C4: when the first poll inside Live.Sync fails, Sync returns that error
\* and spawns no goroutine: no thread's frame but the caller's changes.
\* When it succeeds, Sync returns nil with one goroutine more.
C4_FirstPollFailureSpawnsNothing ==
    [][(InPoll(0) /\ ~InPoll(0)')
         => /\ procs'[0].pc = "idle"
            /\ syncRet' = Nil
                  => /\ nTasks' = nTasks + 1
                     /\ \/ procs[0].pc = "insert" /\ store' = Insert(store, procs[0].page)
                        \/ procs[0].pc = "fetch" /\ Page(procs[0].ge, 0, 0) = <<>>
            /\ syncRet' # Nil
                  => /\ syncRet' \in FetchErrors \cup InsertErrors
                     /\ nTasks' = nTasks
                     /\ store' = store
                     /\ \A p \in Tasks : procs'[p] = procs[p]]_vars

\* The first Sync has failed in its poll: no goroutine, and its ticker runs.
C4_Witness ==
    /\ syncRet \in {ErrStatus, ErrStore}
    /\ nStarts = 1 /\ nTasks = 0
    /\ procs[0].pc = "idle"
    /\ l.ticker \in tkPending

\* C5: as long as the interval is zero, Live.Sync returns ErrNoInterval and
\* nothing else happens: no request, no store call, no goroutine, no
\* context, no ticker; and a Stop on an instance that was never started
\* changes nothing either.
C5_ZeroIntervalIsRefused ==
    [][/\ (l.interval = 0 /\ l'.interval = 0)
            => /\ syncRet' \in {syncRet, ErrNoInterval}
               /\ syncRet' # syncRet => refused'
               /\ UNCHANGED <<l, failed, store, nTasks, nStarts, tkRunning,
                              tkPending, ctxDone, chBuf, chClosed, panicked,
                              procs>>
       /\ (l.ctx = 0 /\ stop' # stop)
            => /\ stop' = [how |-> "noop", tasks |-> nTasks]
               /\ UNCHANGED <<l, failed, store, nTasks, nStarts, tkRunning,
                              tkPending, ctxDone, chBuf, chClosed, panicked,
                              procs, syncRet, refused>>]_vars

\* A refused Sync, a Stop that did nothing, then a Sync that succeeded.
C5_Witness ==
    /\ refused /\ syncRet = Nil
    /\ stop.how = "noop"
    /\ nStarts = 1 /\ nTasks = 1

\* C6: a poll step of the background goroutine, failed or not, leaves the
\* goroutine in its loop, returns nothing to any caller and kills nothing.
C6_PollErrorKeepsLoop ==
    [][/\ \A p \in Tasks : (InPoll(p) /\ ~InPoll(p)')
            => /\ procs'[p].pc = "loop"
               /\ \A q \in Procs \ {p} : procs'[q] = procs[q]
               /\ syncRet' = syncRet
               /\ panicked' = panicked
       /\ failed' # failed
            => \E p \in Tasks : InPoll(p) /\ procs'[p].pc = "loop"]_vars

\* A goroutine is in a poll step again after one of its polls failed.
C6_Witness ==
    nTasks = 1 /\ failed /\ ~Done(procs[1].ctx) /\ procs[1].pc = "insert"

\* The records History.batch has passed to Store.Insert.
HistInserted == UNION {Range(pg) : pg \in hInserts}

\* C7: when History.Sync has returned nil and its context was not
\* cancelled, every upstream record of [from, to) was passed to Insert.
C7_ReturnedNilCoversRange ==
    (hrun.pc = "done" /\ hrun.ret = Nil /\ hrun.cause = Nil /\ ~hCtxDone)
        => \A r \in upstream :
              (hrun.from0 <= r.ts /\ r.ts < hrun.to) => r \in HistInserted

C7_Witness ==
    /\ hrun.pc = "done" /\ hrun.ret = Nil /\ ~hCtxDone
    /\ Cardinality({r \in upstream : hrun.from0 <= r.ts /\ r.ts < hrun.to}) = PageSize - 1
    /\ Cardinality(upstream) > PageSize

\* C8: with every fetch and insert succeeding and no cancellation,
\* History.Sync eventually returns nil.
C8_HistSyncTerminates ==
    <>(hCtxDone \/ hrun.cause # Nil \/ (hrun.pc = "done" /\ hrun.ret = Nil))

\* C9: a failing fetch or insert of a batch ends the run with an error that
\* wraps the cause (ErrInvalidStatusCode for a non-200 response), and the
\* run issues no request and no insert afterwards.
C9_BatchFailureIsFatal ==
    [][/\ hrun'.cause # Nil
            => /\ hrun'.pc = "done"
               /\ hrun'.ret # Nil
               /\ Is(hrun'.ret, hrun'.cause)
               /\ (hrun'.cause = ErrStatus => Is(hrun'.ret, ErrInvalidStatusCode))
       /\ hrun.cause # Nil
            => UNCHANGED <<hrun, hFetches, hInserts, store>>]_vars

C9_Witness ==
    /\ hrun.pc = "done" /\ hrun.cause = ErrStatus
    /\ hrun.ret = Wrap("failed to get delegations", ErrStatus)
    /\ hInserts # {} /\ store # {}

\* C10: when the context is already cancelled at the top of the loop, Sync
\* returns nil at once: no request, no insert, and the store keeps the rows
\* of the batches before.
C10_CancelledBeforeBatch ==
    [][(hrun.pc = "check" /\ hCtxDone /\ hrun' # hrun)
         => /\ hrun'.pc = "done" /\ hrun'.ret = Nil
            /\ UNCHANGED <<hFetches, hInserts, store>>]_vars

C10_Witness ==
    /\ hrun.pc = "done" /\ hrun.ret = Nil /\ hCtxDone
    /\ hFetches # {} /\ store # {} /\ Cardinality(HistInserted) >= PageSize

\* C11: with an empty from, the first batch of History.Sync starts at the
\* timestamp of the store's most recent row, or at firstDelegation when the
\* store is empty; a from that is given is used as it is and the store is
\* not asked for its last row.
C11_FirstBatchLowerBound ==
    [][/\ (hrun.pc = "idle" /\ hrun'.pc = "check")
            => /\ hrun'.from = hrun'.from0
               /\ hrun'.argFrom # 0
                     => hrun'.from0 = hrun'.argFrom /\ ~hrun'.lookup
               /\ hrun'.argFrom = 0
                     => /\ hrun'.lookup
                        /\ store = {} => hrun'.from0 = firstDelegation
                        /\ store # {}
                              => /\ \E r \in store : r.ts = hrun'.from0
                                 /\ \A r \in store : r.ts <= hrun'.from0
       /\ (hFetches = {} /\ hFetches' # {})
            => hFetches' = {[ge |-> hrun.from0, lt |-> hrun.to,
                             limit |-> PageSize]}]_vars

\* The first request of a run that was given no from, on a store whose rows
\* have several timestamps.
C11_Witness ==
    /\ hrun.argFrom = 0 /\ hrun.lookup
    /\ [ge |-> 2, lt |-> hrun.to, limit |-> PageSize] \in hFetches
    /\ \E r \in store : r.ts < 2

\* C12: when from is empty and Store.LastDelegation fails, History.Sync
\* returns an error that wraps the store's error, and the run has issued no
\* request and no insert, then or later.
C12_LookupFailureIsFatal ==
    [][/\ (hrun.pc = "idle" /\ hrun'.cause # Nil)
            => /\ hrun'.pc = "done"
               /\ hrun'.lookup /\ hrun'.argFrom = 0
               /\ hrun'.ret # hrun'.cause /\ Is(hrun'.ret, hrun'.cause)
               /\ UNCHANGED <<hFetches, hInserts, store>>
       /\ (hrun'.ret # Nil /\ hrun'.ret[1] = "failed to get last delegation")
            => hFetches' = {} /\ hInserts' = {}]_vars

\* The lookup has failed on a run that had records to fetch.
C12_Witness ==
    /\ hrun.pc = "done"
    /\ hrun.ret = Wrap("failed to get last delegation", ErrStore)
    /\ hFetches = {} /\ hInserts = {}
    /\ upstream # {} /\ hstop.pc = "returned"

\* C13: a batch whose page is shorter than the page size returns no cursor;
\* a batch whose page is full returns the timestamp of the page's last
\* element.
C13_BatchCursor ==
    [][(hrun.pc = "insert" /\ hrun'.pc # "insert" /\ hrun'.cause = Nil)
         => /\ Len(hrun.page) < PageSize => hrun'.last = 0
            /\ Len(hrun.page) >= PageSize
                  => hrun'.last = hrun.page[Len(hrun.page)].ts]_vars

\* A batch with a full page has returned its cursor.
C13_Witness ==
    /\ hrun.pc = "check" /\ hrun.last # 0 /\ hrun.from = hrun.last
    /\ \E pg \in hInserts : Len(pg) = PageSize /\ pg[PageSize].ts = hrun.last

\* C14: in one run of History.Sync the lower bound of each batch is
\* strictly greater than the lower bound of the batch before.
C14_LowerBoundIncreases ==
    hrun.prev # 0 => hrun.from > hrun.prev

\* C15: every request of one run of History.Sync carries the same upper
\* bound: the to of the call, or, for an empty to, the time at which Sync
\* was called; it does not move while the clock does.
C15_UpperBoundIsFixed ==
    [][/\ (hrun.pc = "idle" /\ hrun'.pc = "check")
            => hrun'.to = IF hrun'.argTo # 0 THEN hrun'.argTo ELSE Format(now)
       /\ hrun.pc # "idle" => hrun'.to = hrun.to
       /\ \A f \in hFetches' : f.lt = hrun'.to]_vars

\* A run without to is in a later batch than its first, and the clock has
\* passed the second of its upper bound.
C15_Witness ==
    /\ hrun.argTo = 0 /\ Format(now) > hrun.to
    /\ [ge |-> hrun.from, lt |-> hrun.to, limit |-> PageSize] \in hFetches
    /\ hrun.from # hrun.from0 /\ hrun.pc = "fetch"

\* C16: the request of every Live poll step has as its lower bound the
\* second that holds the instant lastSyncTime - interval/5, lastSyncTime
\* being l.last as the poll step found it, and it has no upper bound.
C16_PollLowerBound ==
    \A p \in Procs :
        procs[p].pc = "fetch"
            => /\ procs[p].lt = 0
               /\ procs[p].ge =
                      (procs[p].last.at - (l.interval \div 5)) \div SubSec

\* C17: when the fetch of a Live poll step has returned a page, empty or
\* not, l.last is set to a time that is not before the start of that poll
\* step, and the Store.Insert that follows, failed or not, leaves it there.
C17_LastSyncAdvances ==
    [][\A p \in Procs :
          /\ (procs[p].pc = "fetch" /\ procs'[p].pc = "insert")
                => l'.last.at >= procs[p].at
          /\ (procs[p].pc = "fetch" /\ procs'[p].pc # "fetch"
                 /\ IF p = 0 THEN syncRet' = Nil ELSE ~failed')
                => l'.last.at >= procs[p].at
          /\ (procs[p].pc = "insert" /\ procs'[p].pc # "insert")
                => l'.last = l.last]_vars

\* The first poll of a Sync that was given a date in the past has fetched
\* a page, and its Store.Insert has failed.
C17_Witness ==
    /\ syncRet = ErrStore /\ nStarts = 1 /\ store = {}
    /\ l.last.at >= StartTime /\ l.last.off = now.off
    /\ now.off # 0

\* The page the upstream holds for the request of thread p.
Requested(p) == Page(procs[p].ge, procs[p].lt, 0)

\* C18: a Live poll step whose fetch returns an empty page ends without an
\* error and without a call of Store.Insert; when it is the first poll of
\* Sync, Sync returns nil.
C18_EmptyPageIsNoOp ==
    [][\A p \in Procs :
          /\ (procs[p].pc = "fetch" /\ procs'[p].pc # "fetch"
                 /\ Requested(p) = <<>>)
                => /\ procs'[p].pc # "insert"
                   /\ store' = store
                   /\ p = 0 => /\ syncRet' \in {Nil} \cup FetchErrors
                               /\ syncRet' = Nil => nTasks' = nTasks + 1
          /\ procs'[p].pc = "insert" => procs'[p].page # <<>>]_vars

\* Sync has returned nil on an upstream without records: nothing is stored.
C18_Witness ==
    /\ upstream = {} /\ syncRet = Nil /\ nTasks = 1
    /\ store = {} /\ procs[0].pc = "idle"

\* C19: a Live poll step that receives a page with records calls
\* Store.Insert once, with that page, and its result is the result of that
\* call; a poll step whose fetch fails ends with the error of the fetch
\* and calls no Store.Insert.
C19_PollForwardsPage ==
    [][\A p \in Procs :
          /\ (procs[p].pc = "fetch" /\ procs'[p].pc = "insert")
                => /\ procs'[p].page = Requested(p)
                   /\ store' = store
          /\ (procs[p].pc = "fetch" /\ procs'[p].pc \notin {"fetch", "insert"})
                => /\ store' = store
                   /\ (p = 0 /\ syncRet' # Nil) => syncRet' \in FetchErrors
          /\ (procs[p].pc = "insert" /\ procs'[p].pc # "insert")
                => /\ procs'[p].pc # "fetch"
                   /\ store' \in {store, Insert(store, procs[p].page)}
                   /\ p = 0 =>
                         /\ syncRet' \in {Nil} \cup InsertErrors
                         /\ syncRet' = Nil => store' = Insert(store, procs[p].page)
                         /\ syncRet' # Nil => store' = store
                   /\ (p # 0 /\ ~failed') => store' = Insert(store, procs[p].page)]_vars

\* The first poll has received records and Store.Insert has refused them.
C19_Witness ==
    /\ syncRet = ErrStore /\ nStarts = 1 /\ nTasks = 0
    /\ upstream # {} /\ store = {} /\ now.off = 0

\* C20: whatever Insert calls the Live and the History synchronizer make on
\* the same store, and however they interleave, no two rows of the store
\* have the same id, and a call that brings an id the store holds leaves
\* the row of that id as it is (and may succeed).
C20_IdsStayUnique ==
    /\ [](\A r, q \in store : r.id = q.id => r = q)
    /\ [][/\ store \subseteq store'
          /\ \A r \in store' \ store : \A q \in store : q.id # r.id]_vars

\* Both synchronizers have inserted, without error, a page that holds the
\* id of a row the store had before, and that row is as it was.
C20_Witness ==
    /\ StaleRow \in store /\ RecordAt(MaxRecords) \notin store
    /\ RecordAt(MaxRecords - 1) \in store
    /\ syncRet = Nil /\ nTasks = 1
    /\ hrun.pc = "done" /\ hrun.ret = Nil
    /\ RecordAt(MaxRecords) \in HistInserted


\* ------------------------------------------------------------ sqlite store
\* The batches given to Insert: up to two rows, among them rows that share
\* an id or a timestamp.
StoreRows == UpTo(MaxRecords) \cup {StaleRow}
Batches == {<<>>} \cup {<<a>> : a \in StoreRows}
               \cup {<<a, b>> : a \in StoreRows, b \in StoreRows}

\* A call of sqlite.Insert.  before is the table the call found, again
\* whether the call before it was an Insert of the same rows that returned
\* nil.
SqInsert(ds) ==
    /\ sq' = [op |-> "Insert", ds |-> ds, before |-> store,
              again |-> (sq.op = "Insert" /\ sq.ds = ds /\ sq.err = Nil),
              d |-> ZeroDelegation, err |-> InsertTx(store, ds).err]
    /\ store' = InsertTx(store, ds).rows
    /\ UNCHANGED <<now, upstream, liveVars, histVars, get, dec>>

\* A call of sqlite.LastDelegation.
SqLastDelegation ==
    /\ sq' = [op |-> "LastDelegation", ds |-> <<>>, before |-> store,
              again |-> FALSE,
              d |-> sqliteLastDelegation(store).d,
              err |-> sqliteLastDelegation(store).err]
    /\ UNCHANGED <<now, upstream, store, liveVars, histVars, get, dec>>

\* The store on its own: a table that is empty or holds rows, and calls of
\* Insert and LastDelegation in any order.
InitSqlite ==
    /\ now = [at |-> StartTime, off |-> 0]
    /\ upstream = {}
    /\ store \in {UpTo(0), UpTo(2), {StaleRow}}
    /\ InitLiveIdle
    /\ l = NewLive(Interval)
    /\ InitHistIdle
    /\ InitIoIdle

NextSqlite ==
    \/ \E ds \in Batches : SqInsert(ds)
    \/ SqLastDelegation

SpecSqlite == InitSqlite /\ [][NextSqlite]_vars

\* ------------------------------------------------------------- the Fetcher
\* A string of a request is a sequence of pieces: a piece is a run of
\* characters that url.QueryEscape leaves alone, or one character that it
\* escapes (":" and ","), or the escape of one ("%3A", "%2C").
Projection == <<"timestamp", ",", "sender", ",", "amount", ",", "level", ",", "id">>
Date == <<"2018-06-30T19", ":", "30", ":", "27Z">>

\* strconv.Itoa: the decimal digits of n, after a minus sign when n < 0.
DigitChars == <<"0", "1", "2", "3", "4", "5", "6", "7", "8", "9">>
RECURSIVE FormatDigits(_)
FormatDigits(n) ==
    IF n < 10 THEN <<DigitChars[n + 1]>>
    ELSE FormatDigits(n \div 10) \o <<DigitChars[(n % 10) + 1]>>

Itoa(n) == IF n < 0 THEN <<"-">> \o FormatDigits(-n) ELSE FormatDigits(n)

\* url.QueryEscape and url.QueryUnescape, piece by piece.
EscapePiece(c) == IF c = ":" THEN "%3A" ELSE IF c = "," THEN "%2C" ELSE c
UnescapePiece(c) == IF c = "%3A" THEN ":" ELSE IF c = "%2C" THEN "," ELSE c
QueryEscape(str) == [i \in 1..Len(str) |-> EscapePiece(str[i])]
QueryUnescape(str) == [i \in 1..Len(str) |-> UnescapePiece(str[i])]

\* url.Values: the values of each key, in the order of their Add.  The
\* keys are those of getDelegations, in the order Encode sorts them; the
\* url given to getDelegations has no query of its own.
QueryKeys == <<"limit", "select", "timestamp.ge", "timestamp.lt">>
NoValues == [k \in Range(QueryKeys) |-> <<>>]
QAdd(q, key, value) == [q EXCEPT ![key] = Append(@, value)]

\* Values.Encode: key=value pairs, sorted by key, the values escaped.
RECURSIVE EncodeFrom(_, _)
EncodeFrom(q, i) ==
    IF i > Len(QueryKeys) THEN <<>>
    ELSE [j \in 1..Len(q[QueryKeys[i]]) |->
             [key |-> QueryKeys[i], value |-> QueryEscape(q[QueryKeys[i]][j])]]
         \o EncodeFrom(q, i + 1)

Encode(q) == EncodeFrom(q, 1)

\* A query with limit=0 for the requests that have no limit.
BuildQueryLimitZero(opts) ==
    LET q1 == QAdd(NoValues, "select", Projection)
        q2 == IF opts.TsGe # <<>> THEN QAdd(q1, "timestamp.ge", opts.TsGe) ELSE q1
        q3 == IF opts.TsLt # <<>> THEN QAdd(q2, "timestamp.lt", opts.TsLt) ELSE q2
    IN IF opts.Limit >= 0 THEN QAdd(q3, "limit", Itoa(opts.Limit)) ELSE q3

\* The query of getDelegations: select always, the filters when given.
BuildQuery(opts) ==
    LET q1 == QAdd(NoValues, "select", Projection)
        q2 == IF opts.TsGe # <<>> THEN QAdd(q1, "timestamp.ge", opts.TsGe) ELSE q1
        q3 == IF opts.TsLt # <<>> THEN QAdd(q2, "timestamp.lt", opts.TsLt) ELSE q2
    IN IF opts.Limit > 0 THEN QAdd(q3, "limit", Itoa(opts.Limit)) ELSE q3

\* The status codes the upstream answers with, and the text of the error
\* that getDelegations makes of each.
Statuses == {200, 201, 400, 500}
StatusText(code) ==
    CASE code = 200 -> "invalid status code : 200"
      [] code = 201 -> "invalid status code : 201"
      [] code = 400 -> "invalid status code : 400"
      [] code = 500 -> "invalid status code : 500"

\* A test that lets every 2xx status through.
StatusOKAny2xx(code) == code >= 200 /\ code < 300

\* resp.StatusCode != http.StatusOK
StatusOK(code) == code = 200

\* fmt.Errorf("%w : %d", ErrInvalidStatusCode, resp.StatusCode)
StatusError(code) == <<StatusText(code)>> \o ErrInvalidStatusCode

\* The errors of client.Do: the transport's, and the context's.
ErrTransport == <<"transport">>

\* ------------------------------------------------------------- the Decoder
\* responseDelegation, and its zero value.
WireElement(ts, addr, amount, level, id) ==
    [timestamp |-> ts, sender |-> [address |-> addr], amount |-> amount,
     level |-> level, id |-> id]
NoElement == WireElement("", "", 0, 0, 0)
WireElements ==
    {WireElement("2024-10-29T10:22:25Z", "tz1L6FGN8F2o", 13814013, 6976378, 140),
     WireElement("2024-10-29T10:10:00Z", "tz29LqGEjCrS", -25, 0, 7)}

\* The pieces of a byte stream, as json.Decoder meets them: the delimiters
\* of an array, a closing brace, and whole values.  "obj" is an object with
\* the fields of a wire element, "emptyobj" is {}, "badobj" an object with
\* a string for its amount, "num", "str" and "null" are scalars, "cut" is
\* an object that the end of the stream cuts short after its first key;
\* "key" is what follows the opening brace of an object that has fields.
Item(k) == [k |-> k, e |-> NoElement]
Obj(e) == [k |-> "obj", e |-> e]
Values == {Obj(e) : e \in WireElements}
              \cup {Item(k) : k \in {"emptyobj", "badobj", "num", "str", "null"}}
Objects == {"obj", "emptyobj", "badobj", "cut"}
Scalars == {"num", "str", "null"}

\* The errors of encoding/json and of the reader.
ErrEOF == <<"EOF">>
ErrUnexpectedEOF == <<"unexpected EOF">>
ErrSyntax == <<"json: syntax error">>
ErrType == <<"json: cannot unmarshal into Go struct field">>

\* What is left of an object when Token has read its opening brace.
Interior(item) ==
    IF item.k = "emptyobj" THEN <<Item("}")>> ELSE <<Item("key")>>

\* The record that decodeDelegations appends for a decoded element.
ToDelegation(d) ==
    [Timestamp |-> d.timestamp, Delegator |-> d.sender.address,
     Amount |-> Itoa(d.amount), Level |-> Itoa(d.level), Id |-> Itoa(d.id)]

\* The frame of decodeDelegations: the stream it was given, what is left
\* of it, the state of the decoder's token machine, the slice, and the
\* returned values.
NewDecode(raw, capacity) ==
    [pc |-> "token", input |-> raw, raw |-> raw, capacity |-> capacity,
     state |-> "top", out |-> <<>>, ds |-> <<>>, err |-> Nil]
DecReturn(d, ds, err) == [d EXCEPT !.pc = "done", !.ds = ds, !.err = err]

\* make([]tds.Delegation, 0, capacity), then dec.Token(): the token is
\* dropped, only its error is looked at.
DecToken(d) ==
    IF d.capacity < 0 THEN [d EXCEPT !.pc = "panic"]
    ELSE IF d.raw = <<>> THEN DecReturn(d, <<>>, ErrEOF)
    ELSE IF Head(d.raw).k = "[" THEN
        [d EXCEPT !.pc = "more", !.raw = Tail(@), !.state = "arrayStart"]
    ELSE IF Head(d.raw).k \in Objects THEN
        [d EXCEPT !.pc = "more", !.raw = Interior(Head(d.raw)) \o Tail(d.raw),
                  !.state = "objectStart"]
    ELSE IF Head(d.raw).k \in Scalars THEN
        [d EXCEPT !.pc = "more", !.raw = Tail(@)]
    ELSE DecReturn(d, <<>>, ErrSyntax)

\* for dec.More(): a next byte that closes neither an array nor an object;
\* when there is none, return delegations, nil.
DecMore(d) ==
    IF d.raw # <<>> /\ Head(d.raw).k \notin {"]", "}"}
    THEN [d EXCEPT !.pc = "decode"]
    ELSE DecReturn(d, d.out, Nil)

\* A conversion that writes the amount where the level goes.
DecAppendSwapped(d, e) ==
    [d EXCEPT !.pc = "more", !.raw = Tail(@),
              !.state = IF @ = "top" THEN "top" ELSE "arrayComma",
              !.out = Append(@, [ToDelegation(e) EXCEPT !.Level = Itoa(e.amount)])]

\* The value is unmarshalled and the record appended.
DecAppend(d, e) ==
    [d EXCEPT !.pc = "more", !.raw = Tail(@),
              !.state = IF @ = "top" THEN "top" ELSE "arrayComma",
              !.out = Append(@, ToDelegation(e))]

\* dec.Decode(&d) on the value at the head of the stream.
DecValue(d) ==
    IF d.raw = <<>> THEN DecReturn(d, <<>>, ErrEOF)
    ELSE IF Head(d.raw).k = "cut" THEN DecReturn(d, <<>>, ErrUnexpectedEOF)
    ELSE IF Head(d.raw).k = "obj" THEN DecAppend(d, Head(d.raw).e)
    ELSE IF Head(d.raw).k \in {"emptyobj", "null"} THEN DecAppend(d, NoElement)
    ELSE IF Head(d.raw).k \in {"badobj", "num", "str"} THEN DecReturn(d, <<>>, ErrType)
    ELSE DecReturn(d, <<>>, ErrSyntax)

\* The body of the loop: Decode wants a comma after an element of an
\* array, and a place where a value may stand.
DecDecode(d) ==
    IF d.state = "arrayComma"
    THEN IF Head(d.raw).k = ","
         THEN DecValue([d EXCEPT !.raw = Tail(@), !.state = "arrayValue"])
         ELSE DecReturn(d, <<>>, ErrSyntax)
    ELSE IF d.state = "objectStart" THEN DecReturn(d, <<>>, ErrSyntax)
    ELSE DecValue(d)

IdleDecode == [NewDecode(<<>>, 0) EXCEPT !.pc = "none"]

\* The steps of decodeDelegations.
DecodeToken ==
    /\ dec.pc = "token"
    /\ dec' = DecToken(dec)
    /\ UNCHANGED <<now, upstream, store, liveVars, histVars, sq, get>>

DecodeMore ==
    /\ dec.pc = "more"
    /\ dec' = DecMore(dec)
    /\ UNCHANGED <<now, upstream, store, liveVars, histVars, sq, get>>

DecodeElement ==
    /\ dec.pc = "decode"
    /\ dec' = DecDecode(dec)
    /\ UNCHANGED <<now, upstream, store, liveVars, histVars, sq, get>>

\* The frame of getDelegations: its options, the status and the body the
\* upstream answers with, the query of the request, whether client.Do has
\* returned a response, the returned values.
NewGet(opts, status, body) ==
    [pc |-> "call", opts |-> opts, status |-> status, body |-> body,
     query |-> <<>>, resp |-> FALSE, ds |-> <<>>, err |-> Nil]
IdleGet == [NewGet([TsGe |-> <<>>, TsLt |-> <<>>, Limit |-> 0], 200, <<>>)
               EXCEPT !.pc = "none"]

\* The request is made: req.URL.RawQuery = q.Encode().
GetRequest ==
    /\ get.pc = "call"
    /\ get' = [get EXCEPT !.pc = "sent", !.query = Encode(BuildQuery(get.opts))]
    /\ UNCHANGED <<now, upstream, store, liveVars, histVars, sq, dec>>

\* client.Do returns an error: no response.
GetDoError(err) ==
    /\ get.pc = "sent"
    /\ get' = [get EXCEPT !.pc = "done", !.err = err]
    /\ UNCHANGED <<now, upstream, store, liveVars, histVars, sq, dec>>

\* client.Do returns the response: the test of its status, then the call
\* of decodeDelegations(resp.Body, opts.Limit).
GetResponse ==
    /\ get.pc = "sent"
    /\ IF StatusOK(get.status)
       THEN /\ get' = [get EXCEPT !.pc = "decode", !.resp = TRUE]
            /\ dec' = NewDecode(get.body, get.opts.Limit)
       ELSE /\ get' = [get EXCEPT !.pc = "done", !.resp = TRUE,
                                  !.err = StatusError(get.status)]
            /\ UNCHANGED dec
    /\ UNCHANGED <<now, upstream, store, liveVars, histVars, sq>>

\* decodeDelegations has returned: getDelegations returns its values.
GetReturn ==
    /\ get.pc = "decode" /\ dec.pc = "done"
    /\ get' = [get EXCEPT !.pc = "done", !.ds = dec.ds, !.err = dec.err]
    /\ UNCHANGED <<now, upstream, store, liveVars, histVars, sq, dec>>

\* ------------------------------------------- inputs of Fetcher and Decoder
MaxElems == 2       \* elements of an array given to the Decoder

\* A JSON array of the values vs.
RECURSIVE Join(_)
Join(vs) ==
    IF Len(vs) <= 1 THEN vs
    ELSE <<Head(vs), Item(",")>> \o Join(Tail(vs))

Array(vs) == <<Item("[")>> \o Join(vs) \o <<Item("]")>>

ValueSeqs == UNION {[1..n -> Values] : n \in 0..MaxElems}

\* What can become of a stream s: cut short between two pieces or inside
\* an object, or closed by a brace.
Damaged(s) ==
    {SubSeq(s, 1, n) : n \in 0..Len(s)}
        \cup {SubSeq(s, 1, n) \o <<Item("cut")>> : n \in 0..(Len(s) - 1)}
        \cup {SubSeq(s, 1, Len(s) - 1) \o <<Item("}")>>}

\* The streams given to decodeDelegations: arrays of values, what can
\* become of them, and values that no array holds.
Streams == UNION {Damaged(Array(vs)) \cup {vs} : vs \in ValueSeqs}

\* The capacities its callers give it: Live.sync, the tests, History.batch.
Capacities == {0, 1, 3, 10000}

InitDecode ==
    /\ now = [at |-> StartTime, off |-> 0]
    /\ upstream = {} /\ store = {}
    /\ InitLiveIdle
    /\ l = NewLive(Interval)
    /\ InitHistIdle
    /\ sq = IdleStore
    /\ get = IdleGet
    /\ dec \in {NewDecode(raw, c) : raw \in Streams, c \in Capacities}

NextDecode ==
    \/ DecodeToken
    \/ DecodeMore
    \/ DecodeElement

SpecDecode == InitDecode /\ [][NextDecode]_vars

\* The options given to getDelegations and the bodies the upstream answers
\* with: arrays of wire elements, and a stream that is cut short.
OptsInputs ==
    {[TsGe |-> ge, TsLt |-> lt, Limit |-> n] :
        ge \in {<<>>, Date}, lt \in {<<>>, Date}, n \in {0, 1000, 10000}}
Bodies ==
    {Array(vs) : vs \in UNION {[1..n -> {Obj(e) : e \in WireElements}] : n \in 0..MaxElems}}
        \cup {<<Item("["), Item("cut")>>}

InitFetch ==
    /\ now = [at |-> StartTime, off |-> 0]
    /\ upstream = {} /\ store = {}
    /\ InitLiveIdle
    /\ l = NewLive(Interval)
    /\ InitHistIdle
    /\ sq = IdleStore
    /\ get \in {NewGet(o, st, b) : o \in OptsInputs, st \in Statuses, b \in Bodies}
    /\ dec = IdleDecode

NextFetch ==
    \/ GetRequest
    \/ \E err \in {ErrTransport, ErrCanceled} : GetDoError(err)
    \/ GetResponse
    \/ DecodeToken
    \/ DecodeMore
    \/ DecodeElement
    \/ GetReturn

SpecFetch == InitFetch /\ [][NextFetch]_vars

\* The callers' side of the synchronizers: the caller of Live (Sync up to
\* its return, Stop) and the caller of History.Stop, as for a Stop on a
\* synchronizer without a background task.  The goroutine that a Sync
\* returning nil has spawned is not scheduled here.
InitStop ==
    /\ now \in {[at |-> StartTime, off |-> z * SubSec] : z \in Zones}
    /\ upstream \in {UpTo(0), UpTo(MaxRecords)}
    /\ store = {}
    /\ InitLiveIdle
    /\ l \in {NewLive(i) : i \in {0, Interval}}
    /\ InitHistIdle
    /\ InitIoIdle

NextStop ==
    \/ \E from \in FromInputs : LiveSync(from)
    \/ \E err \in {Nil} \cup FetchErrors : LiveFetchReturn(0, err)
    \/ \E err \in {Nil} \cup InsertErrors : LiveInsertReturn(0, err)
    \/ LiveStop
    \/ \E drain \in BOOLEAN : LiveStopCancel(drain)
    \/ SetInterval
    \/ \E t \in 1..MaxStarts : TickerFire(t)
    \/ CancelParent
    \/ HistStop

SpecStop == InitStop /\ [][NextStop]_vars

\* ------------------------------------------------------------------ claims
\* C21: a call of Store.Insert that repeats the rows of the call before it,
\* which returned nil, returns nil and leaves the table as it found it:
\* the same rows, hence the same number of rows.
C21_InsertIsIdempotent ==
    (sq.op = "Insert" /\ sq.again)
        => /\ sq.err = Nil
           /\ store = sq.before
           /\ Cardinality(store) = Cardinality(sq.before)

\* The same two rows were inserted twice in a table that held one of
\* their ids with another timestamp.
C21_Witness ==
    /\ sq.op = "Insert" /\ sq.again /\ Len(sq.ds) = 2
    /\ sq.ds[1].id # sq.ds[2].id
    /\ StaleRow \in store /\ RecordAt(MaxRecords) \in Range(sq.ds)
    /\ Cardinality(store) = 2

\* C22: Store.LastDelegation returns the row with the greatest timestamp and
\* no error; on an empty table it returns no row and no error.
C22_LastDelegationOrNone ==
    sq.op = "LastDelegation"
        => /\ sq.err = Nil
           /\ IF sq.before = {} THEN sq.d = ZeroDelegation
              ELSE /\ sq.d \in sq.before
                   /\ \A q \in sq.before : sq.d.ts >= q.ts

\* What a Stop leaves alone besides the contexts and the tickers.
StopFrame == <<now, upstream, store, parentDone, l, chBuf, chClosed, nStarts,
               nTasks, syncRet, refused, failed, panicked, h, hrun, hCtxDone,
               hFetches, hInserts, ioVars>>

\* A step in which Live.Stop returns, no goroutine having been spawned.
LiveStopReturns ==
    /\ nTasks = 0
    /\ \/ procs[0].pc = "idle" /\ stop' # stop
       \/ procs[0].pc = "stop_cancel" /\ procs'[0].pc # "stop_cancel"

\* A step in which History.Stop returns, Sync never having been called.
HistStopReturns == hrun.pc = "idle" /\ hstop.pc = "idle" /\ hstop'.pc # "idle"

\* C23 as stated: a Stop on a Live without a goroutine (never started, or
\* Sync returned an error) or on a History never synced returns without
\* waiting and changes nothing.
C23_StopChangesNothing ==
    [][/\ LiveStopReturns
           => /\ procs'[0].pc = "idle" /\ stop'.how \in {"noop", "nowait"}
              /\ UNCHANGED <<StopFrame, ctxDone, tkRunning, tkPending, hstop>>
       /\ HistStopReturns
           => UNCHANGED <<StopFrame, ctxDone, tkRunning, tkPending, stop, procs>>]_vars

\* C23, amended: such a Stop returns without waiting; it changes nothing
\* when the Live was never started or was refused for its interval and when
\* the History was never synced; after a Sync that failed on its date or
\* on its first poll it cancels the context and stops the ticker that this
\* Sync made, and changes nothing else.
C23_StopWithoutTask ==
    [][/\ LiveStopReturns
           => /\ procs'[0].pc = "idle" /\ stop'.how \in {"noop", "nowait"}
              /\ UNCHANGED <<StopFrame, hstop>>
              /\ IF l.ctx = 0
                 THEN UNCHANGED <<ctxDone, tkRunning, tkPending>>
                 ELSE /\ syncRet \in {ErrParse} \cup FetchErrors \cup InsertErrors
                      /\ ctxDone' = ctxDone \cup {l.ctx}
                      /\ tkRunning' = tkRunning \ {l.ticker}
                      /\ tkPending' \in {tkPending, tkPending \ {l.ticker}}
       /\ HistStopReturns
           => UNCHANGED <<StopFrame, ctxDone, tkRunning, tkPending, stop, procs>>]_vars

\* Stop has returned after a Sync that failed on its date: the context of
\* that Sync is cancelled and its ticker stopped; History.Stop has returned
\* on a History that was never synced.
C23_Witness ==
    /\ nTasks = 0 /\ syncRet = ErrParse /\ stop.how = "nowait"
    /\ l.ctx \in ctxDone /\ l.ticker \notin tkRunning
    /\ hstop.pc = "returned" /\ hrun.pc = "idle"

\* C24: a Live.Sync that gets past the interval test sets l.last to the
\* instant its from names (the start of that second, in UTC) when from is
\* a date and to time.Now() when from is empty, and the first poll starts
\* with that value; when from is not empty and is not a date, Sync returns
\* the parse error and no thread's frame changes: no request, no goroutine.
C24_StartInitialisesLast ==
    [][\A from \in FromInputs :
          (~NoInterval(l) /\ LiveSync(from))
             => IF from < 0
                THEN /\ syncRet' = ErrParse
                     /\ procs' = procs
                     /\ nTasks' = nTasks
                ELSE /\ l'.last = IF from = 0 THEN now
                                  ELSE [at |-> from * SubSec, off |-> 0]
                     /\ procs'[0].pc = "fetch"
                     /\ procs'[0].last = l'.last
                     /\ syncRet' = syncRet]_vars

\* Sync has returned the parse error: it made a context and a ticker, and
\* no thread is in a poll or was spawned.
C24_Witness ==
    /\ syncRet = ErrParse /\ nStarts = 1 /\ nTasks = 0
    /\ \A p \in Procs : ~InPoll(p)
    /\ procs[0].pc = "idle" /\ l.last = now

\* The number a string of decimal digits stands for.
RECURSIVE DecimalValue(_)
DecimalValue(str) ==
    IF str = <<>> THEN 0
    ELSE IF Head(str) = "-" THEN -DecimalValue(Tail(str))
    ELSE DecimalValue(SubSeq(str, 1, Len(str) - 1)) * 10
            + (CHOOSE n \in 0..9 : DigitChars[n + 1] = str[Len(str)])

\* The values the upstream reads for a key of the query of a request.
RECURSIVE QueryValues(_, _)
QueryValues(query, key) ==
    IF query = <<>> THEN <<>>
    ELSE (IF Head(query).key = key THEN <<QueryUnescape(Head(query).value)>> ELSE <<>>)
            \o QueryValues(Tail(query), key)

\* C25: whatever from, to and limit are, the query of the request holds
\* select with the fixed projection; timestamp.ge, timestamp.lt and limit
\* each once with the given value (limit in decimal) when the option is
\* not empty, resp. greater than zero, and not at all otherwise; and no
\* other key.
C25_RequestFilters ==
    get.pc \in {"sent", "decode", "done"}
        => /\ QueryValues(get.query, "select") = <<Projection>>
           /\ QueryValues(get.query, "timestamp.ge")
                 = IF get.opts.TsGe # <<>> THEN <<get.opts.TsGe>> ELSE <<>>
           /\ QueryValues(get.query, "timestamp.lt")
                 = IF get.opts.TsLt # <<>> THEN <<get.opts.TsLt>> ELSE <<>>
           /\ IF get.opts.Limit > 0
              THEN /\ Len(QueryValues(get.query, "limit")) = 1
                   /\ DecimalValue(QueryValues(get.query, "limit")[1]) = get.opts.Limit
              ELSE QueryValues(get.query, "limit") = <<>>
           /\ \A i \in 1..Len(get.query) :
                 get.query[i].key \in {"select", "timestamp.ge", "timestamp.lt", "limit"}

\* A request with a lower bound and a limit, without an upper bound, has
\* been answered.
C25_Witness ==
    /\ get.pc = "done" /\ get.resp
    /\ get.opts.TsGe = Date /\ get.opts.TsLt = <<>> /\ get.opts.Limit = 1000
    /\ Len(get.query) = 3

\* C26: when the upstream has answered with a status that is not 200,
\* getDelegations returns an error that is ErrInvalidStatusCode and no
\* records, and decodeDelegations is not called, whatever the body.
C26_Non200IsAnError ==
    (get.resp /\ get.status # 200)
        => /\ get.pc = "done"
           /\ Is(get.err, ErrInvalidStatusCode)
           /\ get.ds = <<>>
           /\ dec = IdleDecode

\* The upstream has answered 201 with an array of one element.
C26_Witness ==
    /\ get.pc = "done" /\ get.resp /\ get.status = 201
    /\ Len(get.body) = 3 /\ get.body[2].k = "obj"

\* The arrays of wire elements.
WireSeqs == UNION {[1..n -> {Obj(e) : e \in WireElements}] : n \in 0..MaxElems}

\* C27: of a well-formed array of N wire elements decodeDelegations
\* returns, without an error and whatever the capacity, N records in the
\* order of the elements, each with the timestamp and the address of the
\* sender of its element and with amount, level and id in decimal digits.
C27_DecodesInOrder ==
    \A vs \in WireSeqs :
        (dec.pc = "done" /\ dec.input = Array(vs))
            => /\ dec.err = Nil
               /\ Len(dec.ds) = Len(vs)
               /\ \A i \in 1..Len(vs) :
                     /\ dec.ds[i].Timestamp = vs[i].e.timestamp
                     /\ dec.ds[i].Delegator = vs[i].e.sender.address
                     /\ DecimalValue(dec.ds[i].Amount) = vs[i].e.amount
                     /\ DecimalValue(dec.ds[i].Level) = vs[i].e.level
                     /\ DecimalValue(dec.ds[i].Id) = vs[i].e.id

\* Two different elements were decoded into a slice made for one.
C27_Witness ==
    /\ dec.pc = "done" /\ dec.err = Nil /\ dec.capacity = 1
    /\ dec.input \in {Array(vs) : vs \in WireSeqs}
    /\ Len(dec.ds) = 2 /\ dec.ds[1] # dec.ds[2]
    /\ dec.ds[2].Amount = <<"-", "2", "5">>

\* A stream that opens an array and ends before the array is closed.
Truncated(str) ==
    /\ str # <<>> /\ Head(str).k = "["
    /\ str[Len(str)].k \notin {"]", "}"}

\* An array with an element that is not an object of the wire format.
Malformed(str) ==
    /\ str # <<>> /\ Head(str).k = "["
    /\ \E i \in 2..Len(str) : str[i].k \in {"badobj", "num", "str", "cut"}

\* C28: when an element of the array is malformed or the stream is cut
\* short, decodeDelegations returns an error and no records.
C28_AllOrNothing ==
    (dec.pc = "done" /\ (Truncated(dec.input) \/ Malformed(dec.input)))
        => (dec.err # Nil /\ dec.ds = <<>>)

\* C29: of a stream that does not begin with an array decodeDelegations
\* returns an error.
C29_NotAnArrayIsAnError ==
    (dec.pc = "done" /\ dec.input # <<>> /\ Head(dec.input).k # "[")
        => dec.err # Nil

\* The upstream records of the range of a Sync that began at the first
\* delegation of the chain.
FromFirst == {r \in upstream : firstDelegation <= r.ts /\ r.ts < hrun.to}

\* C30: a batch of History.Sync whose fetch succeeds calls Store.Insert
\* once, with the page the upstream returned for its request, in the
\* order of that page and also when the page is empty; a batch whose fetch
\* fails does not call it.  So a Sync with an empty from on an empty store,
\* the upstream holding less than one page from the first delegation on,
\* returns nil with exactly those records in the store, inserted by one
\* call.
C30_BatchInsertsItsPage ==
    /\ [][/\ (hrun.pc = "fetch" /\ hrun'.pc # "fetch" /\ hrun'.cause = Nil)
               => /\ hrun'.pc = "insert"
                  /\ hrun'.page = Page(hrun.from, hrun.to, PageSize)
                  /\ hInserts' = hInserts \cup {hrun'.page}
          /\ (hrun.pc = "fetch" /\ hrun'.pc # "fetch" /\ hrun'.cause # Nil)
               => hInserts' = hInserts /\ store' = store
          /\ (hrun.pc = "insert" /\ hrun'.pc # "insert")
               => /\ hInserts' = hInserts
                  /\ hrun'.cause = Nil => store' = store \cup Range(hrun.page)
          /\ hrun.pc # "fetch" => hInserts' = hInserts]_vars
    /\ []((/\ hrun.pc = "done" /\ hrun.ret = Nil /\ ~hCtxDone
           /\ hrun.lookup /\ hrun.from0 = firstDelegation
           /\ Cardinality(FromFirst) < PageSize)
             => /\ store = FromFirst
                /\ hInserts = {SortDesc(FromFirst)})

\* Such a Sync has returned nil: the store holds the one page of the
\* upstream, which is not empty.
C30_Witness ==
    /\ hrun.pc = "done" /\ hrun.ret = Nil /\ ~hCtxDone
    /\ hrun.lookup /\ hrun.from0 = firstDelegation
    /\ Cardinality(FromFirst) = PageSize - 1
    /\ store = FromFirst /\ hInserts = {SortDesc(FromFirst)}
\* The background task of a Live that nobody stops: Sync, the goroutine it
\* spawns and its polls, the ticker, and the owner of the context given to
\* Sync, who may cancel it.
InitTask ==
    /\ now \in {[at |-> StartTime, off |-> z * SubSec] : z \in Zones}
    /\ upstream \in {UpTo(0), UpTo(MaxRecords)}
    /\ store = {}
    /\ InitLiveIdle
    /\ l = NewLive(Interval)
    /\ InitHistIdle
    /\ InitIoIdle

NextTask ==
    \/ \E from \in FromInputs : LiveSync(from)
    \/ \E p \in Procs : \E err \in {Nil} \cup FetchErrors : LiveFetchReturn(p, err)
    \/ \E p \in Procs : \E err \in {Nil} \cup InsertErrors : LiveInsertReturn(p, err)
    \/ \E p \in Tasks : TaskInit(p)
    \/ \E p \in Tasks : TaskSelect(p)
    \/ \E p \in Tasks : TaskTick(p)
    \/ \E p \in Tasks : TaskCtxDone(p)
    \/ \E p \in Tasks : TaskExit(p)
    \/ \E t \in 1..MaxStarts : TickerFire(t)
    \/ CancelParent

SpecTask == InitTask /\ [][NextTask]_vars

\* C31: a Live poll step whose fetch fails leaves l.last as it found it;
\* when it is the first poll of a Sync, Sync returns the error of the
\* fetch, and on an instance without a goroutine l.last is still the
\* value that Sync gave it (the parsed from, when a from was given).
C31_FailedFetchKeepsLast ==
    [][\A p \in Procs : \A err \in FetchErrors :
          LiveFetchReturn(p, err)
             => /\ l'.last = l.last
                /\ p = 0 => /\ syncRet' = err
                             /\ nTasks = 0 => l'.last = procs[0].last]_vars

\* Sync was given a date and its first fetch was refused: l.last is that
\* date, and the clock of the process is not on UTC.
C31_Witness ==
    /\ syncRet = ErrStatus /\ nStarts = 1 /\ nTasks = 0
    /\ procs[0].pc = "idle"
    /\ l.last = Parse(2) /\ now.off # 0
\* A History.Sync whose calls return when their context is cancelled: the
\* fetch and the Store call in flight return the context's error.
FairHistCancel ==
    /\ FairHist
    /\ WF_vars(HistFetchReturn(ErrCanceled))
    /\ WF_vars(HistInsertReturn(ErrCanceled))

SpecHistCancelFair == SpecHist /\ FairHistCancel

HistRunning == hrun.pc \in {"check", "fetch", "insert"}

\* C32: once the context of a running History.Sync is cancelled, Sync
\* returns, and from the cancellation on it issues no request: the batch in
\* flight is the last one.
C32_CancelEndsSync ==
    /\ (hCtxDone /\ HistRunning) ~> (hrun.pc = "done")
    /\ [][hCtxDone => /\ hrun'.pc = "fetch" => hrun.pc = "fetch"
                      /\ hFetches' = hFetches
                      /\ hrun.pc = "done" => hrun' = hrun]_vars

\* A run was cancelled with the request of a later batch in flight: Sync
\* has returned the error of that fetch.
C32_Witness ==
    /\ hCtxDone /\ hrun.pc = "done"
    /\ hrun.ret = Wrap("failed to get delegations", ErrCanceled)
    /\ hInserts # {} /\ hrun.from # hrun.from0
\* An instance that is started again after it was stopped.  The caller
\* gives every Sync a context; when the one it gave is cancelled and no
\* thread holds it any more, it takes a new one for its next call.
\* parentDone is then the state of the context the caller holds.
FreshParent ==
    /\ ~panicked /\ parentDone
    /\ procs[0].pc = "idle"
    /\ l.ctx \in ctxDone
    /\ \A p \in Tasks : procs[p].pc \in {"none", "done"}
    /\ parentDone' = FALSE
    /\ UNCHANGED <<now, upstream, store, l, ctxDone, tkRunning, tkPending, chBuf,
                   chClosed, procs, nStarts, nTasks, syncRet, refused, stop,
                   failed, panicked, histVars, ioVars>>

\* Live.Sync, called by a caller that starts an instance again only when
\* a Stop has waited for its goroutine and returned.
LiveRestart(from) ==
    /\ nStarts > 0 => stop.how = "waited"
    /\ LiveSyncUpTo(from, MaxStarts + 1)

InitRestart ==
    /\ now = [at |-> StartTime, off |-> 0]
    /\ upstream \in {UpTo(0), UpTo(MaxRecords)}
    /\ store = {}
    /\ InitLiveIdle
    /\ l = NewLive(Interval)
    /\ InitHistIdle
    /\ InitIoIdle

NextRestart ==
    \/ LiveRestart(0)
    \/ \E p \in Procs : \E err \in {Nil} \cup FetchErrors : LiveFetchReturn(p, err)
    \/ \E p \in Procs : \E err \in {Nil} \cup InsertErrors : LiveInsertReturn(p, err)
    \/ \E p \in Tasks : TaskInit(p)
    \/ \E p \in Tasks : TaskSelect(p)
    \/ \E p \in Tasks : TaskTick(p)
    \/ \E p \in Tasks : TaskCtxDone(p)
    \/ \E p \in Tasks : TaskExit(p)
    \/ LiveStop
    \/ \E drain \in BOOLEAN : LiveStopCancel(drain)
    \/ LiveStopWait
    \/ \E t \in Tasks : TickerFire(t)
    \/ CancelParent
    \/ FreshParent

SpecRestart == InitRestart /\ [][NextRestart]_vars

\* C33: once a Stop has waited for the goroutine of a running instance and
\* returned, the instance has no live goroutine any more, whatever is
\* called on it afterwards, and no further goroutine has been spawned.
C33_NoWayBack ==
    stop.how = "waited"
        => /\ nTasks = stop.tasks
           /\ \A p \in Tasks : procs[p].pc \in {"none", "done"}
\* C34: when History.Sync is called without a from on a store that was
\* empty when the synchronizers were made, its first batch starts at
\* firstDelegation, whatever a Live at work on the same store has inserted
\* before the lookup of the last row.
C34_BackfillStartsAtEpoch ==
    (StaleRow \notin store /\ hrun.argFrom = 0 /\ hrun.lookup /\ hrun.from0 # 0)
        => hrun.from0 = firstDelegation
\* The upstream API learns of a delegation: its timestamp is the second of
\* the block that holds it, here the current one.
UpstreamAdd ==
    /\ Cardinality(upstream) < MaxRecords
    /\ upstream' = upstream \cup {[id |-> Cardinality(upstream) + 1,
                                    ts |-> now.at \div SubSec]}
    /\ UNCHANGED <<now, store, liveVars, histVars, ioVars>>

\* The polls of a Live over time: the clock advances while requests are in
\* flight and between ticks, and the upstream grows.  The process runs in
\* UTC, so that Format writes the second the instant lies in.
InitPoll ==
    /\ now = [at |-> StartTime, off |-> 0]
    /\ upstream \in {UpTo(0), UpTo(MaxRecords - 1)}
    /\ store = {}
    /\ InitLiveIdle
    /\ l = NewLive(Interval)
    /\ InitHistIdle
    /\ InitIoIdle

NextPoll ==
    \/ \E from \in FromInputs : LiveSync(from)
    \/ \E p \in Procs : \E err \in {Nil} \cup FetchErrors : LiveFetchReturn(p, err)
    \/ \E p \in Procs : \E err \in {Nil} \cup InsertErrors : LiveInsertReturn(p, err)
    \/ \E p \in Tasks : TaskInit(p)
    \/ \E p \in Tasks : TaskSelect(p)
    \/ \E p \in Tasks : TaskTick(p)
    \/ \E t \in 1..MaxStarts : TickerFire(t)
    \/ Advance
    \/ UpstreamAdd

SpecPoll == InitPoll /\ [][NextPoll]_vars

\* http.Client{Timeout: 2 * time.Second}: the longest a fetch can take.
Timeout == 2 * SubSec

\* The lower bound of the request that a poll starting now would send, as
\* an instant.
NextLowerBound(lv) == LiveTsGe(lv.last, lv.interval) * SubSec

\* C35: when the fetch of a Live poll returns a page, the lower bound of
\* the poll after it is not later than the instant at which the request of
\* this poll was issued, whatever time within the client's timeout the
\* fetch took: the windows of two polls that follow each other leave no gap.
C35_WindowsLeaveNoGap ==
    [][\A p \in Procs :
          (LiveFetchReturn(p, Nil) /\ now.at - procs[p].at <= Timeout)
             => NextLowerBound(l') <= procs[p].at]_vars

\* C36: when Store.Insert fails in a poll of the goroutine, every record
\* of its page that the store does not hold lies in the window of the poll
\* after it, which returns it again.
C36_FailedInsertIsRetried ==
    [][\A p \in Tasks :
          LiveInsertReturn(p, ErrStore)
             => \A r \in Range(procs[p].page) \ store :
                   r.ts * SubSec >= NextLowerBound(l')]_vars
\* Fairness of the goroutine: it takes its steps and its calls return; a
\* select with several ready cases takes each of them sooner or later
\* (the runtime chooses among them at random), so the case of ctx.Done()
\* is taken although ticks keep arriving.
FairTask ==
    /\ \A p \in Procs : WF_vars(\E err \in {Nil} \cup FetchErrors : LiveFetchReturn(p, err))
    /\ \A p \in Procs : WF_vars(\E err \in {Nil} \cup InsertErrors : LiveInsertReturn(p, err))
    /\ \A p \in Tasks : WF_vars(TaskInit(p)) /\ WF_vars(TaskSelect(p))
                        /\ WF_vars(TaskTick(p)) /\ SF_vars(TaskCtxDone(p))
                        /\ WF_vars(TaskExit(p))

\* The runs of the goroutine under fairness, for a process in UTC (the
\* zone plays no part in what the goroutine does when it is cancelled).
InitTaskUTC == InitTask /\ now.off = 0

SpecTaskFair == InitTaskUTC /\ [][NextTask]_vars /\ FairTask

\* Goroutine p is the goroutine of an instance started once (it is then
\* goroutine 1), and it is alive.
TaskAlive(p) == nTasks = 1 /\ procs[p].pc \notin {"none", "done"}

\* C37: when the context given to Sync is cancelled while the goroutine of
\* an instance started once is alive, the goroutine exits, Stop called or
\* not: its send on the stopped channel finds the buffer empty and the
\* channel open, it is made once, and the goroutine takes no step after it.
C37_CancelEndsTask ==
    /\ (parentDone /\ TaskAlive(1)) ~> (procs[1].pc = "done")
    /\ [](\A p \in Tasks : (TaskAlive(p) /\ procs[p].pc = "exit")
                                => l.stopped \notin chBuf \cup chClosed)
    /\ [][\A p \in Tasks :
             /\ (TaskAlive(p) /\ procs[p].pc = "exit" /\ procs'[p] # procs[p])
                    => /\ procs'[p].pc = "done"
                       /\ chBuf' = chBuf \cup {l.stopped}
                       /\ ~panicked'
             /\ procs[p].pc = "done" => procs'[p] = procs[p]]_vars

\* The context was cancelled while a poll of the goroutine was in flight,
\* nobody has called Stop, and the goroutine has exited: its signal is in
\* the channel.
C37_Witness ==
    /\ parentDone /\ nTasks = 1 /\ procs[1].pc = "done"
    /\ failed /\ stop.how = "none"
    /\ chBuf = {l.stopped} /\ l.stopped # 0
Polling == {p \in Procs : InPoll(p)}

\* C38: on an instance started once at most one poll step is in progress
\* at any time: the goroutine is spawned when the first poll has returned,
\* and it is the only thread that polls from then on.
C38_OnePollAtATime ==
    nStarts <= 1
        => /\ Cardinality(Polling) <= 1
           /\ InPoll(0) => nTasks = 0
           /\ nTasks <= 1
           /\ Polling \subseteq {0, nTasks}

\* The goroutine is in a poll of its own after a poll of it has failed,
\* and the caller is back from Sync.
C38_Witness ==
    /\ nStarts = 1 /\ nTasks = 1 /\ syncRet = Nil
    /\ Polling = {1} /\ failed /\ procs[0].pc = "idle"
\* C39: after a Stop that has waited for the goroutine, received its
\* signal and returned, a second Stop returns as well: the process does
\* not die of a panic.
C39_SecondStopIsSafe ==
    stop.how = "waited" => ~panicked
====
